---- MODULE Spec2Model ----
(***************************************************************************)
(* Model of collector/collector.go of bobrik/ecobee-exporter: the          *)
(* descriptor registry built by NewEcobeeCollector, Describe, and Collect  *)
(* cycles against the ecobee API client.                                   *)
(*                                                                         *)
(* Go strings are TLA+ strings, fmt.Sprintf and strings.Join are string    *)
(* concatenation.  A float64 is an exact decimal [num, den] with den 1 or  *)
(* 10.  A Collect cycle is a process that blocks in the two API calls; the *)
(* code between two blocking points is one action.                         *)
(***************************************************************************)
EXTENDS Integers, Sequences, FiniteSets, TLC

VARIABLES
    collectors,   \* the constructed *eCollector values, by index
    prefixArg,    \* the metricPrefix each collector was constructed with
    described,    \* per collector: what the last Describe sent on its channel
    now,          \* the monotonic clock read by time.Now()
    pc,           \* per cycle: position inside Collect
    start,        \* per cycle: local start
    tt,           \* per cycle: local tt (thermostats returned)
    ts,           \* per cycle: local ts (summaries returned)
    elapsed,      \* per cycle: local elapsed
    ch,           \* per cycle: metrics sent on the channel given to Collect
    log,          \* per cycle: entries this invocation wrote to the logger
    calls,        \* per cycle: API calls this invocation made on c.client
    errs          \* per cycle: the err each API call of this invocation returned

vars == <<collectors, prefixArg, described, now, pc, start, tt, ts, elapsed,
          ch, log, calls, errs>>

(***************************************************************************)
(* Bounds                                                                  *)
(***************************************************************************)
MaxThermostats == 2
MaxSensors == 2
MaxCaps == 2
MaxTime == 1
MaxRaw == 999
MaxPrefixWords == 2

\* the Collect invocations that may be in flight together
Cycles == {"scrape1", "scrape2"}

(***************************************************************************)
(* Helpers                                                                 *)
(***************************************************************************)
RECURSIVE Flatten(_)
Flatten(ss) == IF ss = <<>> THEN <<>> ELSE Head(ss) \o Flatten(Tail(ss))

Range(s) == {s[i] : i \in DOMAIN s}

(***************************************************************************)
(* float64 values                                                          *)
(***************************************************************************)
Float64(n) == [num |-> n, den |-> 1]

\* x / 10 for a float64 x holding an integer
Div10(x) ==
    IF x.num % 10 = 0 THEN [num |-> x.num \div 10, den |-> 1]
    ELSE [num |-> x.num, den |-> 10]

DigitChar == <<"0", "1", "2", "3", "4", "5", "6", "7", "8", "9">>

RECURSIVE Decimal(_)
Decimal(n) ==
    IF n < 10 THEN DigitChar[n + 1]
    ELSE Decimal(n \div 10) \o DigitChar[(n % 10) + 1]

Numerals == [n \in 0..MaxRaw |-> Decimal(n)]

NumeralStrings == {Numerals[n] : n \in 0..MaxRaw}

\* strconv.ParseFloat(s, 64) on the canonical decimal numerals up to MaxRaw;
\* any other string of the model's inputs is a syntax error
ParseFloat(s) ==
    IF s \in NumeralStrings
    THEN [v |-> Float64(CHOOSE n \in 0..MaxRaw : Numerals[n] = s), err |-> "nil"]
    ELSE [v |-> Float64(0), err |-> "strconv.ParseFloat: invalid syntax"]

RECURSIVE Join(_, _)
Join(elems, sep) ==
    IF elems = <<>> THEN ""
    ELSE IF Len(elems) = 1 THEN elems[1]
    ELSE elems[1] \o sep \o Join(Tail(elems), sep)

(***************************************************************************)
(* Descriptor registry                                                     *)
(***************************************************************************)
NewDesc(fqName, help, variableLabels) ==
    [fqName |-> fqName, help |-> help, variableLabels |-> variableLabels]

DescsNewNoPrefix(d, fqName, help, variableLabels) ==
    NewDesc(fqName, help, variableLabels)

DescsNew(d, fqName, help, variableLabels) ==
    NewDesc(d \o "_" \o fqName, help, variableLabels)

NewEcobeeCollector(metricPrefix) ==
    LET d == metricPrefix
        runtime == <<"thermostat_id", "thermostat_name">>
        sensor == runtime \o <<"sensor_id", "sensor_name", "sensor_type">>
    IN  [ fetchTime |->
            DescsNew(d, "fetch_time",
                     "elapsed time fetching data via Ecobee API", <<>>),
          actualTemperature |->
            DescsNew(d, "actual_temperature",
                     "thermostat-averaged current temperature", runtime),
          targetTemperatureMax |->
            DescsNew(d, "target_temperature_max",
                     "maximum temperature for thermostat to maintain", runtime),
          targetTemperatureMin |->
            DescsNew(d, "target_temperature_min",
                     "minimum temperature for thermostat to maintain", runtime),
          temperature |->
            DescsNew(d, "temperature",
                     "temperature reported by a sensor in degrees", sensor),
          humidity |->
            DescsNew(d, "humidity",
                     "humidity reported by a sensor in percent", sensor),
          occupancy |->
            DescsNew(d, "occupancy",
                     "occupancy reported by a sensor (0 or 1)", sensor),
          inUse |->
            DescsNew(d, "in_use",
                     "is sensor being used in thermostat calculations (0 or 1)",
                     sensor),
          currentHvacMode |->
            DescsNew(d, "currenthvacmode", "current hvac mode of thermostat",
                     <<"thermostat_id", "thermostat_name", "current_hvac_mode">>),
          fanStatus |->
            DescsNew(d, "fan_status", "current status of the fan",
                     <<"thermostat_id", "thermostat_name">>),
          mode |->
            DescsNew(d, "mode", "current operating mode",
                     <<"thermostat_id", "thermostat_name", "mode">>) ]

DescribeDropsMode(c) ==
    << c.fetchTime, c.actualTemperature, c.targetTemperatureMax,
       c.targetTemperatureMin, c.temperature, c.humidity, c.occupancy,
       c.inUse, c.currentHvacMode, c.fanStatus >>

\* the descriptors Describe sends on ch, in order
DescribeSends(c) ==
    << c.fetchTime, c.actualTemperature, c.targetTemperatureMax,
       c.targetTemperatureMin, c.temperature, c.humidity, c.occupancy,
       c.inUse, c.currentHvacMode, c.fanStatus, c.mode >>

(***************************************************************************)
(* What one statement of Collect does: send a metric, log, or panic        *)
(***************************************************************************)
LogEntry(level, msg) == [kind |-> "log", level |-> level, msg |-> msg]

\* ch <- prometheus.MustNewConstMetric(desc, prometheus.GaugeValue, value,
\* labelValues...): MustNewConstMetric panics on a label-count mismatch
Send(desc, value, labelValues) ==
    IF Len(labelValues) # Len(desc.variableLabels)
    THEN [kind |-> "panic", msg |-> "inconsistent label cardinality"]
    ELSE [kind |-> "send",
          m |-> [desc |-> desc, valueType |-> "gauge", value |-> value,
                 labelValues |-> labelValues]]

BoolFloat(b) == IF b THEN Float64(1) ELSE Float64(0)

(***************************************************************************)
(* Collect, lines 136-139 and 149-152: the two error returns               *)
(***************************************************************************)
OnThermostatsErrorContinues(c, err) ==
    << LogEntry("error", err), Send(c.fetchTime, Float64(0), <<>>) >>

OnThermostatsError(c, err) == << LogEntry("error", err) >>

OnSummaryErrorAfterFetchTime(c, err, el) ==
    << Send(c.fetchTime, Float64(el), <<>>), LogEntry("error", err) >>

\* el is the time elapsed so far, which the error return does not use
OnSummaryError(c, err, el) == << LogEntry("error", err) >>

(***************************************************************************)
(* Collect, lines 153-154: elapsed and the fetchTime metric                *)
(***************************************************************************)
ElapsedSwapped(startTime, endTime) == startTime - endTime

\* time.Now().Sub(start), endTime being the value of time.Now()
Elapsed(startTime, endTime) == endTime - startTime

FetchTimeEvents(c, el) == << Send(c.fetchTime, Float64(el), <<>>) >>

(***************************************************************************)
(* Collect, lines 155-184: one pass of the loop over ts                    *)
(***************************************************************************)
SummaryEventsHeatFromAux(c, t) ==
    LET fanStatus == BoolFloat(t.EquipmentStatus.Fan)
        coolStatus == BoolFloat(t.EquipmentStatus.CompCool1)
        heatStatus == BoolFloat(t.EquipmentStatus.AuxHeat1)
        auxStatus == BoolFloat(t.EquipmentStatus.AuxHeat1)
    IN  << Send(c.fanStatus, fanStatus, <<t.Identifier, t.Name>>),
           Send(c.mode, coolStatus, <<t.Identifier, t.Name, "cool">>),
           Send(c.mode, heatStatus, <<t.Identifier, t.Name, "heat">>),
           Send(c.mode, auxStatus, <<t.Identifier, t.Name, "aux">>) >>

SummaryEvents(c, t) ==
    LET fanStatus == BoolFloat(t.EquipmentStatus.Fan)
        coolStatus == BoolFloat(t.EquipmentStatus.CompCool1)
        heatStatus == BoolFloat(t.EquipmentStatus.HeatPump)
        auxStatus == BoolFloat(t.EquipmentStatus.AuxHeat1)
    IN  << Send(c.fanStatus, fanStatus, <<t.Identifier, t.Name>>),
           Send(c.mode, coolStatus, <<t.Identifier, t.Name, "cool">>),
           Send(c.mode, heatStatus, <<t.Identifier, t.Name, "heat">>),
           Send(c.mode, auxStatus, <<t.Identifier, t.Name, "aux">>) >>

(***************************************************************************)
(* Collect, lines 210-244: one pass of the loop over s.Capability          *)
(***************************************************************************)
CapabilityEventsBadValueSendsZero(c, sFields, sc) ==
    CASE sc.Type = "temperature" ->
            LET r == ParseFloat(sc.Value)
            IN  << Send(c.temperature, Div10(r.v), sFields) >>
      [] sc.Type = "humidity" ->
            LET r == ParseFloat(sc.Value)
            IN  << Send(c.humidity, r.v, sFields) >>
      [] sc.Type = "occupancy" ->
            CASE sc.Value = "true" ->
                    << Send(c.occupancy, Float64(1), sFields) >>
              [] OTHER ->
                    << Send(c.occupancy, Float64(0), sFields) >>
      [] OTHER ->
            << LogEntry("info",
                        "ignoring sensor capability \"" \o sc.Type \o "\"") >>

CapabilityEvents(c, sFields, sc) ==
    CASE sc.Type = "temperature" ->
            LET r == ParseFloat(sc.Value)
            IN  IF r.err = "nil"
                THEN << Send(c.temperature, Div10(r.v), sFields) >>
                ELSE << LogEntry("error", r.err) >>
      [] sc.Type = "humidity" ->
            LET r == ParseFloat(sc.Value)
            IN  IF r.err = "nil"
                THEN << Send(c.humidity, r.v, sFields) >>
                ELSE << LogEntry("error", r.err) >>
      [] sc.Type = "occupancy" ->
            CASE sc.Value = "true" ->
                    << Send(c.occupancy, Float64(1), sFields) >>
              [] sc.Value = "false" ->
                    << Send(c.occupancy, Float64(0), sFields) >>
              [] OTHER ->
                    << LogEntry("error",
                                "unknown sensor occupancy value \""
                                    \o sc.Value \o "\"") >>
      [] OTHER ->
            << LogEntry("info",
                        "ignoring sensor capability \"" \o sc.Type \o "\"") >>

(***************************************************************************)
(* Collect, lines 201-245: one pass of the loop over t.RemoteSensors       *)
(***************************************************************************)
SensorEventsIdAfterName(c, tFields, s) ==
    LET sFields == tFields \o <<s.Name, s.ID, s.Type>>
        inUse == IF s.InUse THEN Float64(1) ELSE Float64(0)
    IN  << Send(c.inUse, inUse, sFields) >>
        \o Flatten([k \in 1..Len(s.Capability) |->
                        CapabilityEvents(c, sFields, s.Capability[k])])

SensorEvents(c, tFields, s) ==
    LET sFields == tFields \o <<s.ID, s.Name, s.Type>>
        inUse == IF s.InUse THEN Float64(1) ELSE Float64(0)
    IN  << Send(c.inUse, inUse, sFields) >>
        \o Flatten([k \in 1..Len(s.Capability) |->
                        CapabilityEvents(c, sFields, s.Capability[k])])

(***************************************************************************)
(* Collect, lines 186-200: the runtime metrics of one thermostat           *)
(***************************************************************************)
RuntimeEventsIgnoresConnected(c, t) ==
    LET tFields == <<t.Identifier, t.Name>>
    IN  << Send(c.actualTemperature,
                Div10(Float64(t.Runtime.ActualTemperature)), tFields),
           Send(c.targetTemperatureMax,
                Div10(Float64(t.Runtime.DesiredCool)), tFields),
           Send(c.targetTemperatureMin,
                Div10(Float64(t.Runtime.DesiredHeat)), tFields),
           Send(c.currentHvacMode, Float64(0),
                <<t.Identifier, t.Name, t.Settings.HvacMode>>) >>

RuntimeEvents(c, t) ==
    LET tFields == <<t.Identifier, t.Name>>
    IN  IF t.Runtime.Connected
        THEN << Send(c.actualTemperature,
                     Div10(Float64(t.Runtime.ActualTemperature)), tFields),
                Send(c.targetTemperatureMax,
                     Div10(Float64(t.Runtime.DesiredCool)), tFields),
                Send(c.targetTemperatureMin,
                     Div10(Float64(t.Runtime.DesiredHeat)), tFields),
                Send(c.currentHvacMode, Float64(0),
                     <<t.Identifier, t.Name, t.Settings.HvacMode>>) >>
        ELSE <<>>

\* Collect, lines 185-246: one pass of the loop over tt
ThermostatEvents(c, t) ==
    LET tFields == <<t.Identifier, t.Name>>
    IN  RuntimeEvents(c, t)
        \o Flatten([j \in 1..Len(t.RemoteSensors) |->
                        SensorEvents(c, tFields, t.RemoteSensors[j])])

\* Collect, lines 153-246: everything after both calls succeeded
CollectTail(c, thermostats, summaries, el) ==
    FetchTimeEvents(c, el)
    \o Flatten([i \in 1..Len(summaries) |-> SummaryEvents(c, summaries[i])])
    \o Flatten([i \in 1..Len(thermostats) |->
                    ThermostatEvents(c, thermostats[i])])

(***************************************************************************)
(* Running a list of statements: a panic ends the invocation               *)
(***************************************************************************)
Executed(events) ==
    LET bad == {i \in DOMAIN events : events[i].kind = "panic"}
    IN  IF bad = {} THEN events
        ELSE SubSeq(events, 1, (CHOOSE i \in bad : \A j \in bad : i <= j) - 1)

Panics(events) == \E i \in DOMAIN events : events[i].kind = "panic"

Sent(events) ==
    LET ok == SelectSeq(Executed(events), LAMBDA e : e.kind = "send")
    IN  [i \in DOMAIN ok |-> ok[i].m]

Logged(events) == SelectSeq(Executed(events), LAMBDA e : e.kind = "log")

(***************************************************************************)
(* API data: what c.client can return                                      *)
(***************************************************************************)
\* the capabilities a sensor reports, in order: the thermostat's own sensor
\* (the first of its list) and a remote sensor
CapTypes(j) ==
    IF j % 2 = 1 THEN <<"temperature", "humidity", "occupancy", "airQuality">>
    ELSE <<"occupancy", "airQuality", "temperature", "humidity">>

\* raw values a capability of a type may carry
CapValues(type) ==
    CASE type = "temperature" -> {"725", "abc"}
      [] type = "humidity" -> {"45", "abc"}
      [] type = "occupancy" -> {"true", "false", "maybe"}
      [] OTHER -> {"725"}

\* the lists of n capabilities sensor j may report
RECURSIVE CapLists(_, _)
CapLists(j, n) ==
    IF n = 0 THEN {<<>>}
    ELSE LET types == CapTypes(j)
             type == types[((n - 1) % Len(types)) + 1]
         IN  { Append(caps, [Type |-> type, Value |-> v])
               : caps \in CapLists(j, n - 1), v \in CapValues(type) }

HvacModes == <<"heat", "cool", "auto", "off">>

\* the i-th registered thermostat of the account
Thermostat(i, connected, sensors) ==
    [ Identifier |-> Decimal(411000 + i),
      Name |-> "Floor " \o Decimal(i),
      Runtime |-> [ Connected |-> connected,
                    ActualTemperature |-> 700 + 5 * i,
                    DesiredCool |-> 760,
                    DesiredHeat |-> 680 - 5 * i ],
      Settings |-> [ HvacMode |-> HvacModes[(i % 4) + 1] ],
      RemoteSensors |-> sensors ]

\* the j-th sensor of the i-th thermostat; the thermostat averages over its
\* odd-numbered sensors
RemoteSensor(i, j, caps) ==
    [ ID |-> "rs:" \o Decimal(i) \o "0" \o Decimal(j),
      Name |-> "Room " \o Decimal(i) \o "." \o Decimal(j),
      Type |-> IF j = 1 THEN "thermostat" ELSE "ecobee3_remote_sensor",
      InUse |-> (j % 2 = 1),
      Capability |-> caps ]

\* sensor lists of thermostat i, numbered from j, with exactly s sensors and
\* exactly n capabilities in all
RECURSIVE SensorLists(_, _, _, _)
SensorLists(i, j, s, n) ==
    IF s = 0 THEN (IF n = 0 THEN {<<>>} ELSE {})
    ELSE UNION { { <<RemoteSensor(i, j, caps)>> \o rest
                   : caps \in CapLists(j, n1),
                     rest \in SensorLists(i, j + 1, s - 1, n - n1) }
                 : n1 \in 0..n }

\* GetThermostats results: thermostat lists numbered from i with at most t
\* thermostats, s sensors and n capabilities in all
RECURSIVE ThermostatLists(_, _, _, _)
ThermostatLists(i, t, s, n) ==
    IF t = 0 THEN {<<>>}
    ELSE {<<>>} \cup
         UNION { { <<Thermostat(i, connected, sensors)>> \o rest
                   : connected \in BOOLEAN,
                     sensors \in SensorLists(i, 1, sn[1], sn[2]),
                     rest \in ThermostatLists(i + 1, t - 1, s - sn[1], n - sn[2]) }
                 : sn \in (0..s) \X (0..n) }

ThermostatsUpTo(t, s, n) == ThermostatLists(1, t, s, n)

AllThermostats == ThermostatsUpTo(MaxThermostats, MaxSensors, MaxCaps)

BareThermostats == ThermostatsUpTo(MaxThermostats, 0, 0)

FewSensorsThermostats == ThermostatsUpTo(MaxThermostats, 1, 1)

EquipmentStatuses ==
    [Fan : BOOLEAN, CompCool1 : BOOLEAN, HeatPump : BOOLEAN, AuxHeat1 : BOOLEAN]

ThermostatSummary(t, status) ==
    [Identifier |-> t.Identifier, Name |-> t.Name, EquipmentStatus |-> status]

\* one record for each requested thermostat
RECURSIVE FullSummaryLists(_, _)
FullSummaryLists(thermostats, statuses) ==
    IF thermostats = <<>> THEN {<<>>}
    ELSE { <<ThermostatSummary(Head(thermostats), st)>> \o r
           : st \in statuses, r \in FullSummaryLists(Tail(thermostats), statuses) }

OneStatus ==
    { [Fan |-> TRUE, CompCool1 |-> TRUE, HeatPump |-> FALSE, AuxHeat1 |-> FALSE] }

\* GetThermostatSummary results: a record for each requested thermostat still
\* registered, in order
RECURSIVE SummaryLists(_, _)
SummaryLists(thermostats, statuses) ==
    IF thermostats = <<>> THEN {<<>>}
    ELSE LET rest == SummaryLists(Tail(thermostats), statuses)
         IN  rest \cup { <<ThermostatSummary(Head(thermostats), st)>> \o r
                         : st \in statuses, r \in rest }

ApiErrors == {"context deadline exceeded"}

Failures == {[err |-> e, val |-> <<>>] : e \in ApiErrors}

Successes(vals) == {[err |-> "nil", val |-> v] : v \in vals}

\* what GetThermostats may return
ThermostatResponses == Failures \cup Successes(AllThermostats)

BareThermostatResponses == Failures \cup Successes(BareThermostats)

FewSensorsResponses == Failures \cup Successes(FewSensorsThermostats)

(***************************************************************************)
(* State after construction                                                *)
(***************************************************************************)
DefaultPrefix == "ecobee"

InitCycles ==
    /\ now = 0
    /\ pc = [cy \in Cycles |-> "idle"]
    /\ start = [cy \in Cycles |-> 0]
    /\ tt = [cy \in Cycles |-> <<>>]
    /\ ts = [cy \in Cycles |-> <<>>]
    /\ elapsed = [cy \in Cycles |-> 0]
    /\ ch = [cy \in Cycles |-> <<>>]
    /\ log = [cy \in Cycles |-> <<>>]
    /\ calls = [cy \in Cycles |-> <<>>]
    /\ errs = [cy \in Cycles |-> <<>>]

Init ==
    /\ prefixArg = <<DefaultPrefix>>
    /\ collectors = <<NewEcobeeCollector(DefaultPrefix)>>
    /\ described = <<<<>>>>
    /\ InitCycles

(***************************************************************************)
(* Describe                                                                *)
(***************************************************************************)
Describe(k) ==
    /\ described' = [described EXCEPT ![k] = DescribeSends(collectors[k])]
    /\ UNCHANGED <<collectors, prefixArg, now, pc, start, tt, ts, elapsed,
                   ch, log, calls, errs>>

(***************************************************************************)
(* Collect                                                                 *)
(***************************************************************************)
\* the collector registered with the exposition server
Receiver == collectors[1]

Tick ==
    /\ now < MaxTime
    /\ now' = now + 1
    /\ UNCHANGED <<collectors, prefixArg, described, pc, start, tt, ts,
                   elapsed, ch, log, calls, errs>>

\* lines 128-135: a new invocation with a fresh channel; start is taken and
\* GetThermostats is called
CollectStart(cy) ==
    /\ pc[cy] \in {"idle", "done", "panic"}
    /\ start' = [start EXCEPT ![cy] = now]
    /\ calls' = [calls EXCEPT ![cy] =
                    << [op |-> "GetThermostats",
                        selection |-> [SelectionType |-> "registered",
                                       SelectionMatch |-> ""]] >>]
    /\ tt' = [tt EXCEPT ![cy] = <<>>]
    /\ ts' = [ts EXCEPT ![cy] = <<>>]
    /\ elapsed' = [elapsed EXCEPT ![cy] = 0]
    /\ ch' = [ch EXCEPT ![cy] = <<>>]
    /\ log' = [log EXCEPT ![cy] = <<>>]
    /\ errs' = [errs EXCEPT ![cy] = <<>>]
    /\ pc' = [pc EXCEPT ![cy] = "wait1"]
    /\ UNCHANGED <<collectors, prefixArg, described, now>>

\* lines 136-148: GetThermostats returns one of responses; on success ids are
\* collected and GetThermostatSummary is called
GetThermostatsReturns(cy, responses) ==
    /\ pc[cy] = "wait1"
    /\ \E resp \in responses :
        /\ errs' = [errs EXCEPT ![cy] = Append(errs[cy], resp.err)]
        /\ IF resp.err # "nil"
           THEN LET events == OnThermostatsError(Receiver, resp.err)
                IN  /\ ch' = [ch EXCEPT ![cy] = ch[cy] \o Sent(events)]
                    /\ log' = [log EXCEPT ![cy] = log[cy] \o Logged(events)]
                    /\ pc' = [pc EXCEPT ![cy] = "done"]
                    /\ UNCHANGED <<tt, calls>>
           ELSE LET ids == [i \in 1..Len(resp.val) |-> resp.val[i].Identifier]
                IN  /\ tt' = [tt EXCEPT ![cy] = resp.val]
                    /\ calls' = [calls EXCEPT ![cy] = calls[cy] \o
                            << [op |-> "GetThermostatSummary",
                                selection |-> [SelectionType |-> "thermostats",
                                               SelectionMatch |-> Join(ids, ",")]] >>]
                    /\ pc' = [pc EXCEPT ![cy] = "wait2"]
                    /\ UNCHANGED <<ch, log>>
    /\ UNCHANGED <<collectors, prefixArg, described, now, start, ts, elapsed>>

\* tt kept where an overlapping invocation that is waiting for its summary has
\* overwritten it
ThermostatsOfShared(cy) ==
    LET others == {c \in Cycles : c # cy /\ pc[c] = "wait2"}
    IN  IF others = {} THEN tt[cy] ELSE tt[CHOOSE c \in others : TRUE]

\* the local tt read by the loop at line 185
ThermostatsOf(cy) == tt[cy]

\* lines 149-246: GetThermostatSummary returns one of responses
GetThermostatSummaryReturns(cy, responses) ==
    /\ pc[cy] = "wait2"
    /\ \E resp \in responses :
        LET el == Elapsed(start[cy], now)
            events == IF resp.err # "nil"
                      THEN OnSummaryError(Receiver, resp.err, el)
                      ELSE CollectTail(Receiver, ThermostatsOf(cy), resp.val, el)
        IN  /\ errs' = [errs EXCEPT ![cy] = Append(errs[cy], resp.err)]
            /\ ch' = [ch EXCEPT ![cy] = ch[cy] \o Sent(events)]
            /\ log' = [log EXCEPT ![cy] = log[cy] \o Logged(events)]
            /\ pc' = [pc EXCEPT ![cy] = IF Panics(events) THEN "panic" ELSE "done"]
            /\ ts' = [ts EXCEPT ![cy] = resp.val]
            /\ elapsed' = [elapsed EXCEPT ![cy] =
                              IF resp.err # "nil" THEN 0 ELSE el]
    /\ UNCHANGED <<collectors, prefixArg, described, now, start, tt, calls>>

\* scrapes served one at a time
Serial == {"scrape1"}

\* serial scrapes of thermostats with sensors, both calls returning within one
\* reading of the clock
Next ==
    \/ \E cy \in Serial : CollectStart(cy)
    \/ \E cy \in Serial : GetThermostatsReturns(cy, ThermostatResponses)
    \/ \E cy \in Serial :
          GetThermostatSummaryReturns(cy,
              Failures \cup Successes(FullSummaryLists(tt[cy], OneStatus)))

Spec == Init /\ [][Next]_vars

(***************************************************************************)
(* Other scenarios                                                         *)
(***************************************************************************)
\* serial scrapes of thermostats without sensors, every equipment status,
\* thermostats deregistered between the two calls; Describe at any time
NextSummary ==
    \/ \E k \in DOMAIN collectors : Describe(k)
    \/ \E cy \in Serial : CollectStart(cy)
    \/ \E cy \in Serial : GetThermostatsReturns(cy, BareThermostatResponses)
    \/ \E cy \in Serial :
          GetThermostatSummaryReturns(cy,
              Failures \cup Successes(SummaryLists(tt[cy], EquipmentStatuses)))

SpecSummary == Init /\ [][NextSummary]_vars

\* serial scrapes while the clock advances
NextClock ==
    \/ Tick
    \/ \E cy \in Serial : CollectStart(cy)
    \/ \E cy \in Serial : GetThermostatsReturns(cy, FewSensorsResponses)
    \/ \E cy \in Serial :
          GetThermostatSummaryReturns(cy,
              Failures \cup Successes(FullSummaryLists(tt[cy], OneStatus)))

SpecClock == Init /\ [][NextClock]_vars

\* overlapping scrapes: the exposition server calls Collect concurrently
NextOverlap ==
    \/ Tick
    \/ \E cy \in Cycles : CollectStart(cy)
    \/ \E cy \in Cycles : GetThermostatsReturns(cy, BareThermostatResponses)
    \/ \E cy \in Cycles :
          GetThermostatSummaryReturns(cy,
              Failures \cup Successes(FullSummaryLists(tt[cy], OneStatus)))

SpecOverlap == Init /\ [][NextOverlap]_vars

\* metric prefixes: words joined by "_"
PrefixWords == {"ecobee", "actual", "target", "fan"}

RECURSIVE PrefixesOf(_)
PrefixesOf(n) ==
    IF n = 1 THEN PrefixWords
    ELSE { p \o "_" \o w : p \in PrefixesOf(n - 1), w \in PrefixWords }

Prefixes == UNION {PrefixesOf(n) : n \in 1..MaxPrefixWords}

\* two collectors constructed in one process
InitRegistry ==
    /\ \E p \in Prefixes, q \in Prefixes :
        /\ prefixArg = <<p, q>>
        /\ collectors = <<NewEcobeeCollector(p), NewEcobeeCollector(q)>>
    /\ described = << <<>>, <<>> >>
    /\ InitCycles

NextRegistry == \E k \in DOMAIN collectors : Describe(k)

SpecRegistry == InitRegistry /\ [][NextRegistry]_vars

(***************************************************************************)
(* Properties                                                              *)
(***************************************************************************)
Returned(cy) == pc[cy] \in {"done", "panic"}

ThermostatsFailed(cy) ==
    Returned(cy) /\ Len(errs[cy]) = 1 /\ errs[cy][1] # "nil"

SummaryFailed(cy) ==
    Returned(cy) /\ Len(errs[cy]) = 2 /\ errs[cy][1] = "nil" /\ errs[cy][2] # "nil"

BothSucceeded(cy) == Returned(cy) /\ errs[cy] = <<"nil", "nil">>

\* how many samples of a cycle satisfy P
Count(cy, P(_)) == Cardinality({i \in DOMAIN ch[cy] : P(ch[cy][i])})

ErrorLogs(cy) == SelectSeq(log[cy], LAMBDA e : e.level = "error")

C2_NoSampleOnThermostatsError ==
    \A cy \in Cycles :
        ThermostatsFailed(cy) =>
            /\ ch[cy] = <<>>
            /\ pc[cy] = "done"
            /\ Len(calls[cy]) = 1
            /\ calls[cy][1].op = "GetThermostats"
            /\ \A i \in DOMAIN calls[cy] : calls[cy][i].op # "GetThermostatSummary"

C2_Witness ==
    \E cy \in Cycles :
        /\ ThermostatsFailed(cy)
        /\ log[cy] # <<>>

\* the value each label name of a descriptor stands for
ThermostatLabels(t) ==
    [ thermostat_id |-> t.Identifier, thermostat_name |-> t.Name,
      current_hvac_mode |-> t.Settings.HvacMode ]

SummaryLabels(r, md) ==
    [ thermostat_id |-> r.Identifier, thermostat_name |-> r.Name, mode |-> md ]

SensorLabels(t, sn) ==
    [ thermostat_id |-> t.Identifier, thermostat_name |-> t.Name,
      sensor_id |-> sn.ID, sensor_name |-> sn.Name, sensor_type |-> sn.Type ]

\* the label values of m are, position by position, the values for the label
\* names its descriptor declares
LabelsMatch(m, values) ==
    /\ Len(m.labelValues) = Len(m.desc.variableLabels)
    /\ \A i \in DOMAIN m.labelValues :
          /\ m.desc.variableLabels[i] \in DOMAIN values
          /\ m.labelValues[i] = values[m.desc.variableLabels[i]]

ModeStrings == {"cool", "heat", "aux"}

\* C4: in every sample the label values have the length of, and are position
\* by position the values for, the label names of the sample's descriptor:
\* none for fetchTime, [id, name] of a thermostat for the runtime metrics and
\* fanStatus, [id, name, hvac mode] for currentHvacMode, [id, name, mode] for
\* mode, [id, name, sensor id, sensor name, sensor type] of a thermostat and
\* one of its own sensors for the sensor metrics.
C4_LabelValuesFollowLabelNames ==
    \A cy \in Cycles : \A i \in DOMAIN ch[cy] :
        LET m == ch[cy][i]
            c == Receiver
        IN  /\ m.desc \in Range(DescribeSends(c))
            /\ m.desc = c.fetchTime => m.labelValues = <<>>
            /\ m.desc \in {c.actualTemperature, c.targetTemperatureMax,
                           c.targetTemperatureMin} =>
                  \E t \in Range(tt[cy]) :
                      /\ LabelsMatch(m, ThermostatLabels(t))
                      /\ m.labelValues = <<t.Identifier, t.Name>>
            /\ m.desc = c.currentHvacMode =>
                  \E t \in Range(tt[cy]) :
                      /\ LabelsMatch(m, ThermostatLabels(t))
                      /\ m.labelValues = <<t.Identifier, t.Name, t.Settings.HvacMode>>
            /\ m.desc = c.fanStatus =>
                  \E r \in Range(ts[cy]) : \E md \in ModeStrings :
                      /\ LabelsMatch(m, SummaryLabels(r, md))
                      /\ m.labelValues = <<r.Identifier, r.Name>>
            /\ m.desc = c.mode =>
                  \E r \in Range(ts[cy]) : \E md \in ModeStrings :
                      /\ LabelsMatch(m, SummaryLabels(r, md))
                      /\ m.labelValues = <<r.Identifier, r.Name, md>>
            /\ m.desc \in {c.temperature, c.humidity, c.occupancy, c.inUse} =>
                  \E t \in Range(tt[cy]) : \E sn \in Range(t.RemoteSensors) :
                      /\ LabelsMatch(m, SensorLabels(t, sn))
                      /\ m.labelValues =
                            <<t.Identifier, t.Name, sn.ID, sn.Name, sn.Type>>

C4_Witness ==
    \E cy \in Cycles :
        /\ BothSucceeded(cy)
        /\ Len(tt[cy]) = 2
        /\ Len(tt[cy][1].RemoteSensors) = 2
        /\ tt[cy][2].Runtime.Connected
        /\ \E i \in DOMAIN ch[cy] : ch[cy][i].desc = Receiver.temperature
        /\ \E i \in DOMAIN ch[cy] : ch[cy][i].desc = Receiver.occupancy
        /\ \E i \in DOMAIN ch[cy] : ch[cy][i].desc = Receiver.mode

\* a capability whose value yields a sample
ValidCapability(sc) ==
    \/ sc.Type \in {"temperature", "humidity"} /\ sc.Value \in NumeralStrings
    \/ sc.Type = "occupancy" /\ sc.Value \in {"true", "false"}

\* a capability of a metric type whose value does not parse
BadCapability(sc) ==
    \/ sc.Type \in {"temperature", "humidity"} /\ sc.Value \notin NumeralStrings
    \/ sc.Type = "occupancy" /\ sc.Value \notin {"true", "false"}

CapabilityDesc(c, type) ==
    CASE type = "temperature" -> c.temperature
      [] type = "humidity" -> c.humidity
      [] type = "occupancy" -> c.occupancy

AboutThermostat(m, d, t) ==
    m.desc = d /\ m.labelValues[1] = t.Identifier

AboutSensor(m, d, t, sn) ==
    m.desc = d /\ m.labelValues[1] = t.Identifier /\ m.labelValues[3] = sn.ID

\* C5: after two successful calls, a thermostat whose Connected flag is unset
\* has no actualTemperature, targetTemperatureMax, targetTemperatureMin or
\* currentHvacMode sample, a connected one has exactly one of each, and every
\* sensor of either has its inUse sample and one sample per valid
\* temperature, humidity or occupancy capability.
C5_RuntimeOnlyWhenConnected ==
    \A cy \in Cycles :
        BothSucceeded(cy) =>
            \A k \in DOMAIN tt[cy] :
                LET t == tt[cy][k]
                    c == Receiver
                IN  /\ \A d \in {c.actualTemperature, c.targetTemperatureMax,
                                 c.targetTemperatureMin, c.currentHvacMode} :
                          Count(cy, LAMBDA m : AboutThermostat(m, d, t))
                              = IF t.Runtime.Connected THEN 1 ELSE 0
                    /\ \A j \in DOMAIN t.RemoteSensors :
                          LET sn == t.RemoteSensors[j]
                          IN  /\ Count(cy, LAMBDA m : AboutSensor(m, c.inUse, t, sn)) = 1
                              /\ \A type \in {"temperature", "humidity", "occupancy"} :
                                    Count(cy, LAMBDA m :
                                            AboutSensor(m, CapabilityDesc(c, type), t, sn))
                                        = Len(SelectSeq(sn.Capability, LAMBDA sc :
                                                sc.Type = type /\ ValidCapability(sc)))

C5_Witness ==
    \E cy \in Cycles :
        /\ BothSucceeded(cy)
        /\ Len(tt[cy]) = 2
        /\ ~tt[cy][1].Runtime.Connected
        /\ tt[cy][2].Runtime.Connected
        /\ Len(tt[cy][1].RemoteSensors) = 1
        /\ \E k \in DOMAIN tt[cy][1].RemoteSensors[1].Capability :
              ValidCapability(tt[cy][1].RemoteSensors[1].Capability[k])
        /\ \E i \in DOMAIN ch[cy] :
              AboutSensor(ch[cy][i], Receiver.temperature, tt[cy][1],
                          tt[cy][1].RemoteSensors[1])

\* the thermostats with the capabilities that do not parse left out
WithoutBadCapabilities(thermostats) ==
    [ i \in DOMAIN thermostats |->
        LET t == thermostats[i]
        IN  [ t EXCEPT !.RemoteSensors =
                [ j \in DOMAIN t.RemoteSensors |->
                    [ t.RemoteSensors[j] EXCEPT !.Capability =
                        SelectSeq(t.RemoteSensors[j].Capability,
                                  LAMBDA sc : ~BadCapability(sc)) ] ] ] ]

BadCapabilityCount(thermostats) ==
    Len(Flatten([ i \in DOMAIN thermostats |->
            Flatten([ j \in DOMAIN thermostats[i].RemoteSensors |->
                SelectSeq(thermostats[i].RemoteSensors[j].Capability,
                          BadCapability) ]) ]))

OccupancyValue(sc) == IF sc.Value = "true" THEN Float64(1) ELSE Float64(0)

\* C6: a temperature or humidity capability with a non-numeric value, or an
\* occupancy capability that is neither "true" nor "false", yields no sample
\* and one error log entry; the cycle is not aborted and sends exactly the
\* samples it would send were those capabilities absent; occupancy "true"
\* is sent as 1 and "false" as 0.
C6_ParseErrorIsItemLocal ==
    \A cy \in Cycles :
        BothSucceeded(cy) =>
            /\ pc[cy] = "done"
            /\ ch[cy] = Sent(CollectTail(Receiver, WithoutBadCapabilities(tt[cy]),
                                        ts[cy], elapsed[cy]))
            /\ Len(ErrorLogs(cy)) = BadCapabilityCount(tt[cy])
            /\ \A k \in DOMAIN tt[cy] : \A j \in DOMAIN tt[cy][k].RemoteSensors :
                  LET t == tt[cy][k]
                      sn == t.RemoteSensors[j]
                      sent == SelectSeq(ch[cy], LAMBDA m :
                                  AboutSensor(m, Receiver.occupancy, t, sn))
                      caps == SelectSeq(sn.Capability, LAMBDA sc :
                                  sc.Type = "occupancy" /\ ValidCapability(sc))
                  IN  [i \in DOMAIN sent |-> sent[i].value]
                          = [i \in DOMAIN caps |-> OccupancyValue(caps[i])]

C6_Witness ==
    \E cy \in Cycles :
        /\ BothSucceeded(cy)
        /\ Len(tt[cy]) = 2
        /\ Len(tt[cy][1].RemoteSensors) = 2
        /\ LET first == tt[cy][1].RemoteSensors[1]
               second == tt[cy][1].RemoteSensors[2]
           IN  /\ first.Capability =
                    << [Type |-> "temperature", Value |-> "abc"],
                       [Type |-> "humidity", Value |-> "45"] >>
               /\ Len(ErrorLogs(cy)) = 1
               /\ \E i \in DOMAIN ch[cy] :
                     /\ AboutSensor(ch[cy][i], Receiver.humidity, tt[cy][1], first)
                     /\ ch[cy][i].value = Float64(45)
               /\ \E i \in DOMAIN ch[cy] :
                     AboutSensor(ch[cy][i], Receiver.inUse, tt[cy][1], second)
               /\ \E i \in DOMAIN ch[cy] :
                     AboutThermostat(ch[cy][i], Receiver.actualTemperature, tt[cy][2])

\* C8: after two successful calls exactly one fetchTime sample has been sent,
\* without labels, and its value, the time from start to the later reading
\* of the clock, is not negative.
C8_FetchTimeOnceAndNonNegative ==
    \A cy \in Cycles :
        BothSucceeded(cy) =>
            /\ Count(cy, LAMBDA m : m.desc = Receiver.fetchTime) = 1
            /\ \A i \in DOMAIN ch[cy] :
                  ch[cy][i].desc = Receiver.fetchTime =>
                      /\ ch[cy][i].labelValues = <<>>
                      /\ ch[cy][i].value.num >= 0
                      /\ ch[cy][i].value.den = 1
                      /\ start[cy] + ch[cy][i].value.num <= now

\* no thermostat at all, and time passing between start and the second reading
C8_Witness ==
    \E cy \in Cycles :
        /\ BothSucceeded(cy)
        /\ tt[cy] = <<>>
        /\ ts[cy] = <<>>
        /\ Len(ch[cy]) = 1
        /\ ch[cy][1].desc = Receiver.fetchTime
        /\ ch[cy][1].value = Float64(1)

SummaryAbout(m, d, r) ==
    m.desc = d /\ m.labelValues[1] = r.Identifier

\* C7: after two successful calls every summary record has exactly one
\* fanStatus sample, 1 if Fan is set and else 0, and exactly three mode
\* samples labelled "cool", "heat" and "aux" whose values are 1 or 0 as
\* CompCool1, HeatPump and AuxHeat1 are set; no other mode label is sent.
C7_FanAndModeSamples ==
    \A cy \in Cycles :
        BothSucceeded(cy) =>
            LET c == Receiver
                modeValue(r, md) ==
                    CASE md = "cool" -> BoolFloat(r.EquipmentStatus.CompCool1)
                      [] md = "heat" -> BoolFloat(r.EquipmentStatus.HeatPump)
                      [] md = "aux" -> BoolFloat(r.EquipmentStatus.AuxHeat1)
            IN  /\ Count(cy, LAMBDA m : m.desc = c.fanStatus) = Len(ts[cy])
                /\ Count(cy, LAMBDA m : m.desc = c.mode) = 3 * Len(ts[cy])
                /\ \A i \in DOMAIN ch[cy] :
                      ch[cy][i].desc = c.mode =>
                          ch[cy][i].labelValues[3] \in ModeStrings
                /\ \A k \in DOMAIN ts[cy] :
                      LET r == ts[cy][k]
                      IN  /\ Count(cy, LAMBDA m : SummaryAbout(m, c.fanStatus, r)) = 1
                          /\ Count(cy, LAMBDA m :
                                 /\ SummaryAbout(m, c.fanStatus, r)
                                 /\ m.labelValues = <<r.Identifier, r.Name>>
                                 /\ m.value = BoolFloat(r.EquipmentStatus.Fan)) = 1
                          /\ Count(cy, LAMBDA m : SummaryAbout(m, c.mode, r)) = 3
                          /\ \A md \in ModeStrings :
                                Count(cy, LAMBDA m :
                                    /\ SummaryAbout(m, c.mode, r)
                                    /\ m.labelValues = <<r.Identifier, r.Name, md>>
                                    /\ m.value = modeValue(r, md)) = 1

C7_Witness ==
    \E cy \in Cycles :
        /\ BothSucceeded(cy)
        /\ Len(ts[cy]) = 2
        /\ ts[cy][1].EquipmentStatus =
              [Fan |-> TRUE, CompCool1 |-> TRUE, HeatPump |-> FALSE, AuxHeat1 |-> FALSE]
        /\ ts[cy][2].EquipmentStatus =
              [Fan |-> FALSE, CompCool1 |-> FALSE, HeatPump |-> TRUE, AuxHeat1 |-> FALSE]
        /\ Len(ch[cy]) = 9 + 4 * Cardinality({k \in DOMAIN tt[cy] :
                                                tt[cy][k].Runtime.Connected})
        /\ described[1] = <<>>

\* the metric names of the collector, in the order of Describe
MetricSuffixes ==
    << "fetch_time", "actual_temperature", "target_temperature_max",
       "target_temperature_min", "temperature", "humidity", "occupancy",
       "in_use", "currenthvacmode", "fan_status", "mode" >>

DescribedNames(k) == [i \in DOMAIN described[k] |-> described[k][i].fqName]

\* C9: Describe yields exactly the 11 descriptors, with pairwise distinct
\* fully-qualified names, whatever Collect cycles ran or are running; a
\* Describe makes no API call and changes neither the registry nor a cycle.
C9_DescribeYieldsElevenDescriptors ==
    /\ [](\A k \in DOMAIN collectors :
            described[k] # <<>> =>
                /\ Len(described[k]) = 11
                /\ DescribedNames(k) =
                      [i \in 1..11 |-> prefixArg[k] \o "_" \o MetricSuffixes[i]]
                /\ \A i, j \in 1..11 :
                      i # j => described[k][i].fqName # described[k][j].fqName
                /\ Range(described[k]) =
                      {collectors[k][f] : f \in DOMAIN collectors[k]})
    /\ [][ /\ collectors' = collectors
           /\ described' # described =>
                 /\ calls' = calls
                 /\ UNCHANGED <<pc, start, tt, ts, elapsed, ch, log, errs, now>>
           /\ \A k \in DOMAIN collectors :
                 described[k] # <<>> => described'[k] = described[k] ]_vars

C9_Witness ==
    /\ described[1] # <<>>
    /\ \E cy \in Cycles : BothSucceeded(cy) /\ Len(ch[cy]) > 1

\* the fully-qualified names of a collector's descriptors
FqNames(k) == {collectors[k][f].fqName : f \in DOMAIN collectors[k]}

\* C3 as stated: two registries built with different prefixes share no
\* fully-qualified name.
C3_DifferentPrefixesNeverCollide ==
    \A i, j \in DOMAIN collectors :
        prefixArg[i] # prefixArg[j] => FqNames(i) \cap FqNames(j) = {}

\* C3 amended: two registries built with different prefixes never give the
\* same name to the same metric, and the only name they can share is
\* "{p}_actual_temperature", which is the temperature metric of the registry
\* built with the prefix "{p}_actual".
C3_DifferentPrefixesCollideOnlyOnActual ==
    \A i, j \in DOMAIN collectors :
        prefixArg[i] # prefixArg[j] =>
            \A f \in DOMAIN collectors[i], g \in DOMAIN collectors[j] :
                collectors[i][f].fqName = collectors[j][g].fqName =>
                    /\ f # g
                    /\ \/ /\ f = "actualTemperature"
                          /\ g = "temperature"
                          /\ prefixArg[j] = prefixArg[i] \o "_actual"
                       \/ /\ f = "temperature"
                          /\ g = "actualTemperature"
                          /\ prefixArg[i] = prefixArg[j] \o "_actual"

C3_Witness ==
    /\ Len(collectors) = 2
    /\ prefixArg[1] = "ecobee"
    /\ prefixArg[2] = "ecobee_target"
    /\ FqNames(1) \cap FqNames(2) = {}
    /\ Cardinality(FqNames(1) \cup FqNames(2)) = 22
    /\ described[1] # <<>>
    /\ described[2] # <<>>

\* the local state of one Collect invocation
Locals(cy) ==
    <<pc[cy], start[cy], tt[cy], ts[cy], elapsed[cy], ch[cy], log[cy],
      calls[cy], errs[cy]>>

\* C10 as stated: the samples a cycle sends are determined by the two API
\* responses it received alone.
C10_SamplesDeterminedByResponsesAlone ==
    \A c1, c2 \in Cycles :
        ( /\ Returned(c1) /\ Returned(c2)
          /\ errs[c1] = errs[c2] /\ tt[c1] = tt[c2] /\ ts[c1] = ts[c2] )
        => ch[c1] = ch[c2]

\* C10 amended: the samples a cycle sends are determined by the two API
\* responses it received and the elapsed time it measured itself (the value
\* of fetchTime), also when cycles overlap and whatever cycles ran before; a
\* step of one cycle changes nothing of another cycle, and the descriptor
\* set is never modified.
C10_CyclesAreIndependent ==
    /\ [](\A c1, c2 \in Cycles :
            ( /\ Returned(c1) /\ Returned(c2)
              /\ errs[c1] = errs[c2] /\ tt[c1] = tt[c2] /\ ts[c1] = ts[c2]
              /\ elapsed[c1] = elapsed[c2] )
            => ch[c1] = ch[c2] /\ log[c1] = log[c2])
    /\ [](\A cy \in Cycles :
            /\ BothSucceeded(cy) =>
                  ch[cy] = Sent(CollectTail(Receiver, tt[cy], ts[cy], elapsed[cy]))
            /\ Returned(cy) /\ ~BothSucceeded(cy) => ch[cy] = <<>>)
    /\ [][ /\ collectors' = collectors
           /\ \A c1, c2 \in Cycles :
                 c1 # c2 /\ Locals(c1)' # Locals(c1) => Locals(c2)' = Locals(c2)
         ]_vars

C10_Witness ==
    \E c1, c2 \in Cycles :
        /\ c1 # c2
        /\ pc[c1] = "wait2"
        /\ BothSucceeded(c2)
        /\ start[c1] < start[c2] + elapsed[c2]
        /\ Len(tt[c1]) = 2
        /\ Len(tt[c2]) = 2
        /\ tt[c1] # tt[c2]
        /\ Len(ch[c2]) > 1

====
